---- MODULE Spec2Model ----
(***************************************************************************)
(* Model of examples/create_test_pair.py: the generator of the fixture     *)
(* pair test_old.pptx / test_new.pptx.                                     *)
(*                                                                         *)
(* Each of create_old and create_new is a straight-line sequence of calls  *)
(* into the authoring library.  The statements are kept as instruction     *)
(* tables (one entry per source statement, with its line), and there is    *)
(* one action per kind of statement.  A deck is a record of its core       *)
(* properties and its slides; a slide is its layout, its title text, the   *)
(* paragraphs of placeholder 1 and the paragraphs of its notes text frame  *)
(* (<<>> while the slide has no notes slide).  Python object references    *)
(* (slide, body, tf, p, notes_slide) are indices into the deck.            *)
(***************************************************************************)
EXTENDS Naturals, Sequences, FiniteSets, TLC

VARIABLES main_pc, pc, locals, fs, writes, status, run, stdout

vars == <<main_pc, pc, locals, fs, writes, status, run, stdout>>

\* How many times the generator is run in succession.
MaxRuns == 2

Funcs == {"create_old", "create_new"}
Paths == {"test_old.pptx", "test_new.pptx"}

-----------------------------------------------------------------------------
(* Instructions: op names the statement kind, text its string literal,     *)
(* idx its integer literal, line its source line.                          *)

Ins(op, text, idx, line) == [op |-> op, text |-> text, idx |-> idx, line |-> line]

old_meta ==
  << Ins("Presentation", "", 0, 15),
     Ins("core_title", "Research Study", 0, 16),
     Ins("core_author", "Dr. Smith", 0, 17) >>

\* Slide 1: Title Slide
old_slide1 ==
  << Ins("slide_layout", "", 0, 20),
     Ins("add_slide", "", 0, 21),
     Ins("title_text", "Neuroimaging Study of Brain Connectivity", 0, 22),
     Ins("placeholder_text", "Dr. Smith, Department of Neuroscience", 1, 23),
     Ins("notes_slide", "", 0, 26),
     Ins("notes_text", "Welcome everyone. Today I'll present our findings on brain connectivity.", 0, 27) >>

\* Slide 2: Methods
old_slide2 ==
  << Ins("slide_layout", "", 1, 30),
     Ins("add_slide", "", 0, 31),
     Ins("title_text", "Methods", 0, 32),
     Ins("body", "", 1, 33),
     Ins("text_frame", "", 0, 34),
     Ins("tf_text", "Participants: 50 healthy adults (25M/25F)", 0, 35),
     Ins("add_paragraph", "", 0, 36),
     Ins("p_text", "MRI Protocol: 3T Siemens scanner", 0, 37),
     Ins("add_paragraph", "", 0, 38),
     Ins("p_text", "Analysis: FSL and FreeSurfer pipelines", 0, 39),
     Ins("notes_slide", "", 0, 41),
     Ins("notes_text", "Methods slide - explain recruitment criteria", 0, 42) >>

\* Slide 3: Results
old_slide3 ==
  << Ins("slide_layout", "", 1, 45),
     Ins("add_slide", "", 0, 46),
     Ins("title_text", "Results", 0, 47),
     Ins("body", "", 1, 48),
     Ins("text_frame", "", 0, 49),
     Ins("tf_text", "Significant connectivity differences in DMN (p<0.01)", 0, 50),
     Ins("add_paragraph", "", 0, 51),
     Ins("p_text", "Correlation with cognitive scores: r=0.45", 0, 52),
     Ins("add_paragraph", "", 0, 53),
     Ins("p_text", "No significant age effects observed", 0, 54),
     Ins("notes_slide", "", 0, 56),
     Ins("notes_text", "Key finding: DMN connectivity is altered", 0, 57) >>

\* Slide 4: Discussion
old_slide4 ==
  << Ins("slide_layout", "", 1, 60),
     Ins("add_slide", "", 0, 61),
     Ins("title_text", "Discussion", 0, 62),
     Ins("body", "", 1, 63),
     Ins("text_frame", "", 0, 64),
     Ins("tf_text", "Findings consistent with prior literature", 0, 65),
     Ins("add_paragraph", "", 0, 66),
     Ins("p_text", "Novel contribution: whole-brain analysis approach", 0, 67),
     Ins("add_paragraph", "", 0, 68),
     Ins("p_text", "Clinical implications for early diagnosis", 0, 69),
     Ins("notes_slide", "", 0, 71),
     Ins("notes_text", "Discuss limitations and future directions", 0, 72) >>

\* Variant of old_save that goes on editing the deck after saving it.
old_save_ThenEdits ==
  << Ins("save", "test_old.pptx", 0, 74),
     Ins("title_text", "Discussion and Outlook", 0, 74),
     Ins("print", "Created test_old.pptx (4 slides)", 0, 75) >>

old_save ==
  << Ins("save", "test_old.pptx", 0, 74),
     Ins("print", "Created test_old.pptx (4 slides)", 0, 75) >>

create_old_code == old_meta \o old_slide1 \o old_slide2 \o old_slide3 \o old_slide4 \o old_save

\* Variant of new_meta that also changes the author.
new_meta_AuthorChanged ==
  << Ins("Presentation", "", 0, 80),
     Ins("core_title", "Research Study - Revised", 0, 81),
     Ins("core_author", "Dr. Jones", 0, 82) >>

new_meta ==
  << Ins("Presentation", "", 0, 80),
     Ins("core_title", "Research Study - Revised", 0, 81),
     Ins("core_author", "Dr. Smith", 0, 82) >>

\* Variant of new_slide1 whose subtitle is edited as well as its notes.
new_slide1_SubtitleEdited ==
  [old_slide1 EXCEPT ![4].text = "Dr. Smith and Dr. Jones, Department of Neuroscience",
                     ![6].text = "Welcome. Today I'll present our UPDATED findings on brain connectivity patterns."]

\* Slide 1: Title Slide (same structure, different notes)
new_slide1 ==
  << Ins("slide_layout", "", 0, 85),
     Ins("add_slide", "", 0, 86),
     Ins("title_text", "Neuroimaging Study of Brain Connectivity", 0, 87),
     Ins("placeholder_text", "Dr. Smith, Department of Neuroscience", 1, 88),
     Ins("notes_slide", "", 0, 91),
     Ins("notes_text", "Welcome. Today I'll present our UPDATED findings on brain connectivity patterns.", 0, 92) >>

\* Variant of new_slide2 that adds a fourth paragraph to the edited three.
new_slide2_ParagraphAdded ==
  [k \in 1..14 |->
     IF k = 6 THEN Ins("tf_text", "Participants: 75 healthy adults (38M/37F)", 0, 100)
     ELSE IF k = 8 THEN Ins("p_text", "MRI Protocol: 3T Siemens Prisma scanner", 0, 102)
     ELSE IF k = 10 THEN Ins("p_text", "Analysis: FSL, FreeSurfer, and CONN toolbox", 0, 104)
     ELSE IF k = 11 THEN Ins("add_paragraph", "", 0, 104)
     ELSE IF k = 12 THEN Ins("p_text", "Preregistered on OSF", 0, 104)
     ELSE IF k > 12 THEN old_slide2[k - 2]
     ELSE old_slide2[k]]

\* Variant of new_slide2 whose notes are edited as well as its body.
new_slide2_NotesEdited ==
  [old_slide2 EXCEPT ![6].text = "Participants: 75 healthy adults (38M/37F)",
                     ![8].text = "MRI Protocol: 3T Siemens Prisma scanner",
                     ![10].text = "Analysis: FSL, FreeSurfer, and CONN toolbox",
                     ![12].text = "Methods slide - explain the larger sample"]

\* Slide 2: Methods (modified text)
new_slide2 ==
  << Ins("slide_layout", "", 1, 95),
     Ins("add_slide", "", 0, 96),
     Ins("title_text", "Methods", 0, 97),
     Ins("body", "", 1, 98),
     Ins("text_frame", "", 0, 99),
     Ins("tf_text", "Participants: 75 healthy adults (38M/37F)", 0, 100),
     Ins("add_paragraph", "", 0, 101),
     Ins("p_text", "MRI Protocol: 3T Siemens Prisma scanner", 0, 102),
     Ins("add_paragraph", "", 0, 103),
     Ins("p_text", "Analysis: FSL, FreeSurfer, and CONN toolbox", 0, 104),
     Ins("notes_slide", "", 0, 106),
     Ins("notes_text", "Methods slide - explain recruitment criteria", 0, 107) >>

\* Variant of new_slide3 with one figure of the body edited.
new_slide3_Edited == [old_slide3 EXCEPT ![8].text = "Correlation with cognitive scores: r=0.52"]

\* Slide 3: Results (same as before)
new_slide3 ==
  << Ins("slide_layout", "", 1, 110),
     Ins("add_slide", "", 0, 111),
     Ins("title_text", "Results", 0, 112),
     Ins("body", "", 1, 113),
     Ins("text_frame", "", 0, 114),
     Ins("tf_text", "Significant connectivity differences in DMN (p<0.01)", 0, 115),
     Ins("add_paragraph", "", 0, 116),
     Ins("p_text", "Correlation with cognitive scores: r=0.45", 0, 117),
     Ins("add_paragraph", "", 0, 118),
     Ins("p_text", "No significant age effects observed", 0, 119),
     Ins("notes_slide", "", 0, 121),
     Ins("notes_text", "Key finding: DMN connectivity is altered", 0, 122) >>

\* Variant of new_slide4 that keeps the Discussion slide.
new_slide4_StillDiscussion == old_slide4

\* Slide 4 (was 5): Limitations
new_slide4 ==
  << Ins("slide_layout", "", 1, 127),
     Ins("add_slide", "", 0, 128),
     Ins("title_text", "Limitations", 0, 129),
     Ins("body", "", 1, 130),
     Ins("text_frame", "", 0, 131),
     Ins("tf_text", "Cross-sectional design limits causal inference", 0, 132),
     Ins("add_paragraph", "", 0, 133),
     Ins("p_text", "Sample size may be insufficient for subgroup analyses", 0, 134),
     Ins("add_paragraph", "", 0, 135),
     Ins("p_text", "Single-site study limits generalizability", 0, 136),
     Ins("notes_slide", "", 0, 138),
     Ins("notes_text", "Be honest about limitations - reviewers will ask", 0, 139) >>

new_save ==
  << Ins("save", "test_new.pptx", 0, 141),
     Ins("print", "Created test_new.pptx (4 slides: modified slide 2, changed notes on slide 1, deleted Discussion, added Limitations)", 0, 142) >>

create_new_code == new_meta \o new_slide1 \o new_slide2 \o new_slide3 \o new_slide4 \o new_save

Code(f) == IF f = "create_old" THEN create_old_code ELSE create_new_code

\* The statement a call of f executes next; pc[f] = 0 before the call,
\* Len(Code(f)) + 1 once it has returned.
Returned(f) == pc[f] = Len(Code(f)) + 1
Running(f) == pc[f] \in 1..Len(Code(f))
Cur(f) == Code(f)[pc[f]]
At(f, op) == Running(f) /\ Cur(f).op = op

\* Variant of Scope in which the names are module-level globals.
ScopeShared(f) == "create_old"

\* Each call has its own local names (prs, slide_layout, slide, ...).
Scope(f) == f

-----------------------------------------------------------------------------
(* Decks, slides and files.                                                *)

\* Presentation() opens the library's default template: no slides, and the
\* template's own core properties, whose values the script never reads and
\* overwrites before it adds a slide.
TemplateDeck == [title |-> "<template title>", author |-> "<template author>", slides |-> <<>>]

\* add_slide clones the layout's placeholders: an empty title, placeholder 1
\* with one empty paragraph, and no notes slide yet.
NewSlide(layout) == [layout |-> layout, title |-> "", body |-> <<"">>, notes |-> <<>>]

NoDeck == [title |-> "", author |-> "", slides |-> <<>>]
Absent == [kind |-> "absent", deck |-> NoDeck]
Corrupt == [kind |-> "corrupt", deck |-> NoDeck]
Pptx(deck) == [kind |-> "pptx", deck |-> deck]

\* No name is bound when a function is entered.
NoLocals == [prs |-> <<>>, slide_layout |-> <<>>, slide |-> <<>>, body |-> <<>>,
             tf |-> <<>>, p |-> <<>>, notes_slide |-> <<>>]

-----------------------------------------------------------------------------
(* The effect of each statement kind on the local names l of a call.       *)

\* prs = Presentation()
DoPresentation(l, i) == [l EXCEPT !.prs = <<TemplateDeck>>]

\* prs.core_properties.title = <text>
DoCoreTitle(l, i) == [l EXCEPT !.prs[1].title = i.text]

\* prs.core_properties.author = <text>
DoCoreAuthor(l, i) == [l EXCEPT !.prs[1].author = i.text]

\* slide_layout = prs.slide_layouts[<idx>]
DoSlideLayout(l, i) == [l EXCEPT !.slide_layout = <<i.idx>>]

\* slide = prs.slides.add_slide(slide_layout)
DoAddSlide(l, i) ==
  [l EXCEPT !.prs[1].slides = Append(@, NewSlide(l.slide_layout[1])),
            !.slide = <<Len(l.prs[1].slides) + 1>>]

\* slide.shapes.title.text = <text>
DoTitleText(l, i) == [l EXCEPT !.prs[1].slides[l.slide[1]].title = i.text]

\* slide.placeholders[1].text = <text>: the text frame is left with the one
\* paragraph <text> (the literals hold no line break).
DoPlaceholderText(l, i) == [l EXCEPT !.prs[1].slides[l.slide[1]].body = <<i.text>>]

\* notes_slide = slide.notes_slide: created on first access.
DoNotesSlide(l, i) ==
  [l EXCEPT !.prs[1].slides[l.slide[1]].notes = IF @ = <<>> THEN <<"">> ELSE @,
            !.notes_slide = l.slide]

\* notes_slide.notes_text_frame.text = <text>
DoNotesText(l, i) == [l EXCEPT !.prs[1].slides[l.notes_slide[1]].notes = <<i.text>>]

\* body = slide.placeholders[1]
DoBody(l, i) == [l EXCEPT !.body = l.slide]

\* tf = body.text_frame
DoTextFrame(l, i) == [l EXCEPT !.tf = l.body]

\* tf.text = <text>: replaces every paragraph of the frame by the one
\* paragraph <text>.
DoTfText(l, i) == [l EXCEPT !.prs[1].slides[l.tf[1]].body = <<i.text>>]

\* p = tf.add_paragraph(): a new empty paragraph at the end of the frame.
DoAddParagraph(l, i) ==
  [l EXCEPT !.prs[1].slides[l.tf[1]].body = Append(@, ""),
            !.p = <<l.tf[1], Len(l.prs[1].slides[l.tf[1]].body) + 1>>]

\* p.text = <text>
DoPText(l, i) == [l EXCEPT !.prs[1].slides[l.p[1]].body[l.p[2]] = i.text]

\* Variant of Written that adds the deck's slides to an existing package.
WrittenAppended(old, deck) ==
  IF old.kind = "pptx" THEN Pptx([deck EXCEPT !.slides = old.deck.slides \o @]) ELSE Pptx(deck)

\* prs.save(<path>): the file's content after the save, given what was
\* there before: the package is written anew.
Written(old, deck) == Pptx(deck)

Effect(l, i) ==
  CASE i.op = "Presentation" -> DoPresentation(l, i)
    [] i.op = "core_title" -> DoCoreTitle(l, i)
    [] i.op = "core_author" -> DoCoreAuthor(l, i)
    [] i.op = "slide_layout" -> DoSlideLayout(l, i)
    [] i.op = "add_slide" -> DoAddSlide(l, i)
    [] i.op = "title_text" -> DoTitleText(l, i)
    [] i.op = "placeholder_text" -> DoPlaceholderText(l, i)
    [] i.op = "notes_slide" -> DoNotesSlide(l, i)
    [] i.op = "notes_text" -> DoNotesText(l, i)
    [] i.op = "body" -> DoBody(l, i)
    [] i.op = "text_frame" -> DoTextFrame(l, i)
    [] i.op = "tf_text" -> DoTfText(l, i)
    [] i.op = "add_paragraph" -> DoAddParagraph(l, i)
    [] i.op = "p_text" -> DoPText(l, i)
    [] OTHER -> l

\* The local names after statements lo..hi of code, in order, from l.
\* Every statement but the construction reads prs: with prs unbound it
\* raises NameError and nothing is executed.
RECURSIVE RunRange(_, _, _, _)
RunRange(l, code, lo, hi) ==
  IF lo > hi THEN l
  ELSE IF l.prs = <<>> /\ code[lo].op # "Presentation" THEN l
  ELSE IF lo = hi THEN Effect(l, code[lo])
  ELSE LET mid == (lo + hi) \div 2
       IN  RunRange(RunRange(l, code, lo, mid), code, mid + 1, hi)

\* The local names after the first n statements of code, run alone from a
\* fresh call.
RunAlone(code, n) == RunRange(NoLocals, code, 1, n)

\* The deck a function hands to save when nothing else runs.
FinalDeck(f) == RunAlone(Code(f), Len(Code(f))).prs[1]

SavePath(f) == CHOOSE path \in Paths : \E k \in 1..Len(Code(f)) : Code(f)[k].op = "save" /\ Code(f)[k].text = path

-----------------------------------------------------------------------------
(* State after the interpreter has loaded the script: main is at line 146, *)
(* no function has been called, nothing has been written by this run.      *)
(* The output directory starts without the two files.                      *)

Init ==
  /\ main_pc = 146
  /\ pc = [f \in Funcs |-> 0]
  /\ locals = [f \in Funcs |-> NoLocals]
  /\ fs = [path \in Paths |-> Absent]
  /\ writes = [path \in Paths |-> 0]
  /\ status = "running"
  /\ run = 1
  /\ stdout = <<>>

\* The function main calls at each of its lines.
MainCall(line) == IF line = 146 THEN "create_old" ELSE "create_new"

\* create_old() / create_new() at lines 146 and 147: enter the function.
Call(f) ==
  /\ status = "running"
  /\ main_pc \in {146, 147}
  /\ MainCall(main_pc) = f
  /\ pc[f] = 0
  /\ pc' = [pc EXCEPT ![f] = 1]
  /\ locals' = [locals EXCEPT ![Scope(f)] = NoLocals]
  /\ UNCHANGED <<main_pc, fs, writes, status, run, stdout>>

\* The function returns and main moves to its next line.
Return(f) ==
  /\ status = "running"
  /\ main_pc \in {146, 147}
  /\ MainCall(main_pc) = f
  /\ Returned(f)
  /\ main_pc' = main_pc + 1
  /\ UNCHANGED <<pc, locals, fs, writes, status, run, stdout>>

\* Lines 148-150: the closing hints, then the script ends normally.
MainPrint ==
  /\ status = "running"
  /\ main_pc = 148
  /\ stdout' = stdout \o << "\nDone! Now run:",
                            "  dotnet run --project ../PptxReview.csproj -- --diff test_old.pptx test_new.pptx",
                            "  dotnet run --project ../PptxReview.csproj -- --textconv test_new.pptx" >>
  /\ main_pc' = 151
  /\ status' = "done"
  /\ UNCHANGED <<pc, locals, fs, writes, run>>

\* A statement that only changes the deck and the local names of its call.
LocalStep(f, op, l) ==
  /\ status = "running"
  /\ At(f, op)
  /\ locals' = [locals EXCEPT ![Scope(f)] = l]
  /\ pc' = [pc EXCEPT ![f] = @ + 1]
  /\ UNCHANGED <<main_pc, fs, writes, status, run, stdout>>

NewPresentation(f) == LocalStep(f, "Presentation", DoPresentation(locals[Scope(f)], Cur(f)))
SetCoreTitle(f) == LocalStep(f, "core_title", DoCoreTitle(locals[Scope(f)], Cur(f)))
SetCoreAuthor(f) == LocalStep(f, "core_author", DoCoreAuthor(locals[Scope(f)], Cur(f)))
GetSlideLayout(f) == LocalStep(f, "slide_layout", DoSlideLayout(locals[Scope(f)], Cur(f)))
AddSlide(f) == LocalStep(f, "add_slide", DoAddSlide(locals[Scope(f)], Cur(f)))
SetTitleText(f) == LocalStep(f, "title_text", DoTitleText(locals[Scope(f)], Cur(f)))
SetPlaceholderText(f) == LocalStep(f, "placeholder_text", DoPlaceholderText(locals[Scope(f)], Cur(f)))
GetNotesSlide(f) == LocalStep(f, "notes_slide", DoNotesSlide(locals[Scope(f)], Cur(f)))
SetNotesText(f) == LocalStep(f, "notes_text", DoNotesText(locals[Scope(f)], Cur(f)))
GetBody(f) == LocalStep(f, "body", DoBody(locals[Scope(f)], Cur(f)))
GetTextFrame(f) == LocalStep(f, "text_frame", DoTextFrame(locals[Scope(f)], Cur(f)))
SetTfText(f) == LocalStep(f, "tf_text", DoTfText(locals[Scope(f)], Cur(f)))
AddParagraph(f) == LocalStep(f, "add_paragraph", DoAddParagraph(locals[Scope(f)], Cur(f)))
SetPText(f) == LocalStep(f, "p_text", DoPText(locals[Scope(f)], Cur(f)))

\* prs.save(<path>): succeeds whether or not the file exists.
Save(f) ==
  /\ status = "running"
  /\ At(f, "save")
  /\ fs' = [fs EXCEPT ![Cur(f).text] = Written(@, locals[Scope(f)].prs[1])]
  /\ writes' = [writes EXCEPT ![Cur(f).text] = @ + 1]
  /\ pc' = [pc EXCEPT ![f] = @ + 1]
  /\ UNCHANGED <<main_pc, locals, status, run, stdout>>

\* print(<text>)
PrintLine(f) ==
  /\ status = "running"
  /\ At(f, "print")
  /\ stdout' = Append(stdout, Cur(f).text)
  /\ pc' = [pc EXCEPT ![f] = @ + 1]
  /\ UNCHANGED <<main_pc, locals, fs, writes, status, run>>

\* Variant of Raise in which main catches the exception and carries on with
\* its next line.
RaiseCaughtInMain(f) ==
  /\ status = "running"
  /\ Running(f)
  /\ Cur(f).op # "print"
  /\ pc' = [pc EXCEPT ![f] = Len(Code(f)) + 1]
  /\ UNCHANGED <<main_pc, locals, fs, writes, status, run, stdout>>

\* A library call raises.  Nothing in the script catches it: the exception
\* leaves the function and main, and the interpreter exits.
Raise(f) ==
  /\ status = "running"
  /\ Running(f)
  /\ Cur(f).op # "print"
  /\ status' = "failed"
  /\ UNCHANGED <<main_pc, pc, locals, fs, writes, run, stdout>>

\* save raises after the library has opened the file for writing: what is
\* left at the path is not a readable package.
SaveRaisesPartway(f) ==
  /\ status = "running"
  /\ At(f, "save")
  /\ fs' = [fs EXCEPT ![Cur(f).text] = Corrupt]
  /\ status' = "failed"
  /\ UNCHANGED <<main_pc, pc, locals, writes, run, stdout>>

\* The script is started again in a new interpreter; only the files remain.
Rerun ==
  /\ status \in {"done", "failed"}
  /\ run < MaxRuns
  /\ run' = run + 1
  /\ main_pc' = 146
  /\ pc' = [f \in Funcs |-> 0]
  /\ locals' = [f \in Funcs |-> NoLocals]
  /\ writes' = [path \in Paths |-> 0]
  /\ status' = "running"
  /\ stdout' = <<>>
  /\ UNCHANGED fs

Exec(f) ==
  \/ NewPresentation(f)
  \/ SetCoreTitle(f)
  \/ SetCoreAuthor(f)
  \/ GetSlideLayout(f)
  \/ AddSlide(f)
  \/ SetTitleText(f)
  \/ SetPlaceholderText(f)
  \/ GetNotesSlide(f)
  \/ SetNotesText(f)
  \/ GetBody(f)
  \/ GetTextFrame(f)
  \/ SetTfText(f)
  \/ AddParagraph(f)
  \/ SetPText(f)
  \/ Save(f)
  \/ PrintLine(f)

Next ==
  \/ \E f \in Funcs : Call(f)
  \/ \E f \in Funcs : Exec(f)
  \/ \E f \in Funcs : Raise(f)
  \/ \E f \in Funcs : SaveRaisesPartway(f)
  \/ \E f \in Funcs : Return(f)
  \/ MainPrint
  \/ Rerun

Spec == Init /\ [][Next]_vars

-----------------------------------------------------------------------------
(* The two constructions as independent activities: both are started, the  *)
(* statements of one interleave freely with the statements of the other    *)
(* (which includes either one running to its end before the other starts), *)
(* and the script goes on once both have returned.                         *)

StartBoth ==
  /\ status = "running"
  /\ main_pc = 146
  /\ \A f \in Funcs : pc[f] = 0
  /\ pc' = [f \in Funcs |-> 1]
  /\ locals' = [f \in Funcs |-> NoLocals]
  /\ UNCHANGED <<main_pc, fs, writes, status, run, stdout>>

JoinBoth ==
  /\ status = "running"
  /\ main_pc = 146
  /\ \A f \in Funcs : Returned(f)
  /\ main_pc' = 148
  /\ UNCHANGED <<pc, locals, fs, writes, status, run, stdout>>

NextAnyOrder ==
  \/ StartBoth
  \/ \E f \in Funcs : Exec(f)
  \/ JoinBoth
  \/ MainPrint

SpecAnyOrder == Init /\ [][NextAnyOrder]_vars

-----------------------------------------------------------------------------
(* The two artifacts as a reader of the files sees them.                   *)

OldFile == fs["test_old.pptx"]
NewFile == fs["test_new.pptx"]
OldDeck == OldFile.deck
NewDeck == NewFile.deck
Complete == status = "done" /\ OldFile.kind = "pptx" /\ NewFile.kind = "pptx"
Titles(deck) == {deck.slides[k].title : k \in DOMAIN deck.slides}

-----------------------------------------------------------------------------
\* C1: after a complete run both decks have exactly 4 slides; no slide of
\* the new deck is titled "Discussion", which is the title of old slide 4;
\* new slide 4 is titled "Limitations" and is a slide that occurs nowhere in
\* the old deck.
C1_FourSlidesDiscussionReplaced ==
  status = "done" =>
    /\ Complete
    /\ Len(OldDeck.slides) = 4
    /\ Len(NewDeck.slides) = 4
    /\ OldDeck.slides[4].title = "Discussion"
    /\ "Discussion" \notin Titles(NewDeck)
    /\ NewDeck.slides[4].title = "Limitations"
    /\ "Limitations" \notin Titles(OldDeck)
    /\ \A k \in DOMAIN OldDeck.slides : OldDeck.slides[k] # NewDeck.slides[4]

C1_Witness ==
  /\ Complete
  /\ OldDeck.slides[4].title = "Discussion"
  /\ NewDeck.slides[4].title = "Limitations"

\* C2: after a complete run the Results slide is slide 3 of both decks, with
\* the same title, the same paragraphs in the same order and the same notes.
C2_ResultsUnchanged ==
  status = "done" =>
    /\ Complete
    /\ OldDeck.slides[3].title = "Results"
    /\ NewDeck.slides[3].title = "Results"
    /\ Len(OldDeck.slides[3].body) = Len(NewDeck.slides[3].body)
    /\ \A j \in DOMAIN OldDeck.slides[3].body :
          OldDeck.slides[3].body[j] = NewDeck.slides[3].body[j]
    /\ OldDeck.slides[3].notes = NewDeck.slides[3].notes

C2_Witness ==
  /\ Complete
  /\ NewDeck.slides[3].title = "Results"
  /\ Len(NewDeck.slides[3].body) = 3
  /\ NewDeck.slides[3].notes # <<>>

\* C3: after a complete run the old deck's title is "Research Study", the
\* new deck's is "Research Study - Revised", and the author is the same in
\* both, so the title is the one core property that differs.
C3_MetadataTitleOnly ==
  status = "done" =>
    /\ Complete
    /\ OldDeck.title = "Research Study"
    /\ NewDeck.title = "Research Study - Revised"
    /\ OldDeck.author = NewDeck.author
    /\ {m \in {"title", "author"} : OldDeck[m] # NewDeck[m]} = {"title"}

C3_Witness ==
  /\ Complete
  /\ NewDeck.title = "Research Study - Revised"
  /\ NewDeck.author = "Dr. Smith"

\* C4: after a complete run slide 2 is the Methods slide in both decks,
\* its first paragraph is "Participants: 50 healthy adults (25M/25F)" in the
\* old deck and "Participants: 75 healthy adults (38M/37F)" in the new one,
\* and the two slides have the same title and the same number of
\* paragraphs: paragraphs were edited, none added or removed.
C4_MethodsEditedInPlace ==
  status = "done" =>
    /\ Complete
    /\ OldDeck.slides[2].body[1] = "Participants: 50 healthy adults (25M/25F)"
    /\ NewDeck.slides[2].body[1] = "Participants: 75 healthy adults (38M/37F)"
    /\ OldDeck.slides[2].title = "Methods"
    /\ NewDeck.slides[2].title = OldDeck.slides[2].title
    /\ Len(NewDeck.slides[2].body) = Len(OldDeck.slides[2].body)
    /\ Len(NewDeck.slides) = Len(OldDeck.slides)

C4_Witness ==
  /\ Complete
  /\ OldDeck.slides[2].body # NewDeck.slides[2].body
  /\ Len(NewDeck.slides[2].body) = 3

\* C5: after a complete run slide 1 has different notes in the two decks,
\* and the same title and the same text in placeholder 1 (the subtitle).
C5_Slide1NotesOnly ==
  status = "done" =>
    /\ Complete
    /\ OldDeck.slides[1].notes # NewDeck.slides[1].notes
    /\ OldDeck.slides[1].title = NewDeck.slides[1].title
    /\ OldDeck.slides[1].body = NewDeck.slides[1].body

C5_Witness ==
  /\ Complete
  /\ OldDeck.slides[1].notes # NewDeck.slides[1].notes
  /\ NewDeck.slides[1].body = <<"Dr. Smith, Department of Neuroscience">>

-----------------------------------------------------------------------------
\* What one run alone leaves at each output location.
SingleRunFiles == [path \in Paths |-> Pptx(FinalDeck(CHOOSE f \in Funcs : SavePath(f) = path))]

\* C6: whenever a run completes, a first one or one started over the files
\* of an earlier run, each output location holds exactly what a single run
\* produces (core properties, slide titles, paragraphs in order, notes),
\* with nothing carried over; and a save is never refused because the file
\* is already there.
C6_RerunSameContent ==
  /\ status = "done" => fs = SingleRunFiles
  /\ \A f \in Funcs :
        (status = "running" /\ At(f, "save") /\ fs[Cur(f).text].kind # "absent")
          => ENABLED Save(f)

\* The second run has overwritten test_old.pptx while the test_new.pptx of
\* the first run is still in place.
C6_Witness ==
  /\ run = 2
  /\ writes["test_old.pptx"] = 1
  /\ writes["test_new.pptx"] = 0
  /\ NewFile.kind = "pptx"
  /\ OldFile = SingleRunFiles["test_old.pptx"]

-----------------------------------------------------------------------------
RunOver == status \in {"done", "failed"}
WrittenThisRun(path) == writes[path] >= 1

\* C7 as stated: a run that is over has written both artifacts or neither,
\* never exactly one of the two.
C7_NoPartialSuccess ==
  RunOver =>
    /\ WrittenThisRun("test_old.pptx") <=> WrittenThisRun("test_new.pptx")
    /\ status = "done" => fs = SingleRunFiles

C7_EndStates ==
  /\ status = "done" =>
        /\ \A path \in Paths : WrittenThisRun(path)
        /\ \A f \in Funcs : fs[SavePath(f)] = Pptx(FinalDeck(f))
  /\ status = "failed" =>
        /\ ~WrittenThisRun("test_new.pptx")
        /\ \E f \in Funcs : Running(f) /\ MainCall(main_pc) = f
        /\ WrittenThisRun("test_old.pptx") <=> Running("create_new")
        /\ WrittenThisRun("test_old.pptx") => OldFile = Pptx(FinalDeck("create_old"))

C7_AbortIsFinal ==
  (status = "failed" /\ run' = run) => UNCHANGED vars

\* C7, amended: a failing library call ends the run at once, with no retry
\* and no later statement executed.  A run ends either with both artifacts
\* written with their full content, or failed; a run that fails inside
\* create_old has written neither artifact, a run that fails inside
\* create_new has written test_old.pptx in full and not test_new.pptx.
C7_AbortLeavesOldOnly == []C7_EndStates /\ [][C7_AbortIsFinal]_vars

\* create_new has failed after create_old saved its deck.
C7_Witness ==
  /\ status = "failed"
  /\ Running("create_new")
  /\ WrittenThisRun("test_old.pptx")
  /\ ~WrittenThisRun("test_new.pptx")

-----------------------------------------------------------------------------
\* C8: with the statements of create_old and create_new interleaved in any
\* order, each call's names and deck are at every moment what the call
\* would have built running alone, the two save to different locations,
\* and once both have returned each location holds the deck of its own
\* function run alone.
C8_OrderIndependent ==
  /\ SavePath("create_old") # SavePath("create_new")
  /\ \A f \in Funcs : pc[f] >= 1 => locals[f] = RunAlone(Code(f), pc[f] - 1)
  /\ \A f \in Funcs : WrittenThisRun(SavePath(f)) => fs[SavePath(f)] = Pptx(FinalDeck(f))
  /\ (\A f \in Funcs : Returned(f)) => fs = SingleRunFiles

\* Both constructions are under way, create_new ahead of create_old.
C8_Witness ==
  /\ Running("create_old")
  /\ Running("create_new")
  /\ Len(locals["create_old"].prs) = 1
  /\ Len(locals["create_new"].prs) = 1
  /\ Len(locals["create_old"].prs[1].slides) = 2
  /\ Len(locals["create_new"].prs[1].slides) = 3

-----------------------------------------------------------------------------
Bound(f) == locals[f].prs # <<>>
NumberOf(f, op) == Cardinality({k \in DOMAIN Code(f) : Code(f)[k].op = op})

C9_State ==
  \A f \in Funcs :
    \* one construction and one save in the function's text
    /\ NumberOf(f, "Presentation") = 1
    /\ NumberOf(f, "save") = 1
    \* core properties are final before the first slide exists
    /\ (Bound(f) /\ locals[f].prs[1].slides # <<>>) =>
          /\ locals[f].prs[1].title = FinalDeck(f).title
          /\ locals[f].prs[1].author = FinalDeck(f).author
    \* at most one save per location, exactly one in a completed run
    /\ writes[SavePath(f)] <= 1
    /\ status = "done" => writes[SavePath(f)] = 1
    \* what was saved is the fully populated deck
    /\ WrittenThisRun(SavePath(f)) =>
          /\ Bound(f)
          /\ fs[SavePath(f)] = Pptx(locals[f].prs[1])
          /\ Len(locals[f].prs[1].slides) = 4
          /\ \A k \in 1..4 :
                /\ locals[f].prs[1].slides[k].title # ""
                /\ locals[f].prs[1].slides[k].notes # <<>>
                /\ \A j \in DOMAIN locals[f].prs[1].slides[k].body :
                      locals[f].prs[1].slides[k].body[j] # ""

C9_Step ==
  run' = run =>
    \A f \in Funcs :
      \* statements run in order, each function once
      /\ pc'[f] >= pc[f]
      \* a deck is constructed once: a bound prs is never bound anew
      /\ Bound(f) => (Bound(f)' /\ Len(locals'[f].prs[1].slides) >= Len(locals[f].prs[1].slides))
      \* no change to a deck after its save
      /\ WrittenThisRun(SavePath(f)) => locals'[f].prs = locals[f].prs

\* C9: within one run each deck is constructed once, has its core
\* properties set before its first slide is appended, has all four slides
\* with title, paragraphs and notes set when it is saved, is saved exactly
\* once to its location, and is not modified after the save.
C9_Lifecycle == []C9_State /\ [][C9_Step]_vars

C9_Witness ==
  /\ run = 1
  /\ \A f \in Funcs : Returned(f) /\ writes[SavePath(f)] = 1

-----------------------------------------------------------------------------
\* The rows of the change table as (position, field) pairs that may differ:
\* slide 1 notes revised; slide 2 body edited; slide 4 Discussion removed
\* and Limitations put in its place.
Ledger == {<<1, "notes">>, <<2, "body">>, <<4, "title">>, <<4, "body">>, <<4, "notes">>}
Fields == {"title", "body", "notes"}
Differs(k, field) == OldDeck.slides[k][field] # NewDeck.slides[k][field]

\* C10: after a complete run, every field of every slide position 1..4 in
\* which the two decks differ is a row of the change table; the notes of
\* slide 2 and all fields of slide 3 are equal.
C10_LedgerComplete ==
  status = "done" =>
    /\ Complete
    /\ DOMAIN OldDeck.slides = 1..4
    /\ DOMAIN NewDeck.slides = 1..4
    /\ \A k \in 1..4 : \A field \in Fields : Differs(k, field) => <<k, field>> \in Ledger
    /\ ~Differs(2, "notes")
    /\ \A field \in Fields : ~Differs(3, field)

C10_Witness ==
  /\ Complete
  /\ Differs(1, "notes")
  /\ Differs(2, "body")
  /\ Differs(4, "title")

====
